---------------------------- MODULE Spec2Model ----------------------------
(***************************************************************************)
(* A model of MunchieMigrateV3.py: the GitHub -> Forgejo repository        *)
(* migration tool.  The state is the process's position (pc), the          *)
(* configuration on disk and in memory, the two platforms' inventories,    *)
(* the locals of MigrationEngine.run and the retry state of the HTTP       *)
(* session.  The specifications share the definitions:                    *)
(*   Spec          the whole program (main, the menu, the engine),         *)
(*   SpecRun       one engine run started by main --migrate,               *)
(*   SpecRunLive   that run, under the fairness that lets it go on,        *)
(*   SpecInterrupt that run, during which Ctrl-C may be pressed once,      *)
(*   SpecPages     GitHubClient.get_repositories alone on long listings,   *)
(*   SpecDest      ForgejoClient.get_existing_repos alone on large         *)
(*                 destination inventories,                                *)
(*   SpecSubmit    APIClient.get and ForgejoClient.migrate_repository      *)
(*                 alone on drawn inputs.                                  *)
(***************************************************************************)
EXTENDS Integers, Sequences, FiniteSets, TLC

VARIABLES
    pc,             \* position of the process
    args,           \* the command line flag main() acts on
    disk,           \* the configuration file (ConfigManager)
    config,         \* the configuration in memory (Menu.config / main's config)
    dest,           \* names of the repositories the destination owner has
    source,         \* the source account's listing, a sequence of records
    existing_repos, \* MigrationEngine.run: existing_repos
    github_repos,   \* MigrationEngine.run: github_repos / get_repositories: repos
    page,           \* get_repositories: page
    i,              \* MigrationEngine.run: position of the for loop (records done)
    processed,      \* MigrationEngine.run: processed
    stats,          \* MigrationEngine.stats
    result,         \* MigrationEngine.run: (success, http_code, error)
    payload,        \* migrate_repository: payload
    response,       \* migrate_repository: what self.post returned or raised
    attempts,       \* attempts the session has made for the call in flight
    submitted,      \* history: names POSTed in this run, in order
    outcomes,       \* history: the classification of each record done in this run
    pageLog,        \* history: <<page, records returned>> of each page request
    listFailed,     \* history: the destination listing fetch of this run failed
    summaries,      \* history: summaries rendered by the current engine
    runs,           \* history: engines constructed so far
    prev,           \* history: what the previous run ended with
    wire,           \* history: how the session's latest attempt ended
    interrupt       \* history: what became of a KeyboardInterrupt

vars == <<pc, args, disk, config, dest, source, existing_repos, github_repos,
          page, i, processed, stats, result, payload, response, attempts,
          submitted, outcomes, pageLog, listFailed, summaries, runs, prev,
          wire, interrupt>>

-----------------------------------------------------------------------------
(* Bounds of the model *)

\* longest source listing of one engine run (SpecRun)
MaxRepos == 3

\* longest source listing of the whole program (Spec)
MaxMenuRepos == 2

\* engines one process constructs (menu option 1 chosen that often)
MaxRuns == 2

\* repository names; the code only ever compares names for equality
Names == {"A", "B", "C"}

\* lengths of the long source listings of SpecPages
PageTotals == {0, 1, 99, 100, 101, 200, 250, 300}

-----------------------------------------------------------------------------
(* Values *)

\* Python's None where a string is expected
PyNone == "<None>"

Range(s) == {s[k] : k \in DOMAIN s}

\* MigrationConfig: the fields the engine reads.  present = FALSE stands for
\* None (no configuration); a token is the credential it names.
MigrationConfig(ft, gt, mir, meta) ==
    [present |-> TRUE, forgejo_token |-> ft, github_token |-> gt,
     forgejo_owner |-> "fowner", mirror |-> mir, migrate_metadata |-> meta]

NoConfig ==
    [present |-> FALSE, forgejo_token |-> PyNone, github_token |-> PyNone,
     forgejo_owner |-> PyNone, mirror |-> FALSE, migrate_metadata |-> FALSE]

ForgejoTokens == {"ft_good", "ft_bad"}
GitHubTokens == {"ghp_good", "ghp_bad"}

\* the credentials the two platforms accept
ValidTokens == {"ft_good", "ghp_good"}

Configs ==
    {MigrationConfig(ft, gt, mir, meta) :
        ft \in ForgejoTokens, gt \in GitHubTokens,
        mir \in BOOLEAN, meta \in BOOLEAN}

\* A text is a sequence of tokens; a URL is the text of its parts.
CloneUrl(name) == <<"https://", "github.com/", "gowner/", name, ".git">>

\* one record of the source listing
RepoRecord(name, private, clone_url) ==
    [name |-> name, private |-> private, clone_url |-> clone_url]

\* the record the source serves for a name in the whole-program specification
SourceRecord(name) == RepoRecord(name, name = "B", CloneUrl(name))

-----------------------------------------------------------------------------
(* The inputs the specifications draw from *)

Min(a, b) == IF a < b THEN a ELSE b

NameOrder == <<"A", "B", "C">>

Rank(name) == CHOOSE r \in DOMAIN NameOrder : NameOrder[r] = name

\* the listings in which a name not seen before is the next of NameOrder:
\* one listing of each pattern of repetitions
Listings(max) ==
    {s \in UNION {[1 .. n -> Names] : n \in 0 .. max} :
        \A k \in DOMAIN s :
            \A r \in 1 .. Rank(s[k]) - 1 :
                \E j \in 1 .. k - 1 : s[j] = NameOrder[r]}

\* the configurations of the whole-program specification: both modes with
\* credentials that work, and one with each credential that does not
RunConfigs ==
    {MigrationConfig("ft_good", "ghp_good", TRUE, TRUE),
     MigrationConfig("ft_good", "ghp_good", FALSE, FALSE),
     MigrationConfig("ft_bad", "ghp_good", FALSE, TRUE),
     MigrationConfig("ft_good", "ghp_bad", TRUE, FALSE)}

\* the sources whose listing shows one of the patterns up to a length
Sources(max) ==
    {[k \in DOMAIN s |-> SourceRecord(s[k])] : s \in Listings(max)}

\* the names of the listings up to a length
ListedNames(max) == {NameOrder[r] : r \in 1 .. Min(max, Len(NameOrder))}

-----------------------------------------------------------------------------
(* APIClient: the session's retry policy, get and post *)

\* Retry(total=3)
RetryTotal == 3

\* Retry(status_forcelist=[429, 500, 502, 503, 504])
StatusForcelist == {429, 500, 502, 503, 504}

\* what one attempt on the wire ends with: no response, or a status
ConnFailure == [conn |-> TRUE, status_code |-> 0]
Status(code) == [conn |-> FALSE, status_code |-> code]

\* history: no attempt has been made for the step the engine is at
NoWire == [conn |-> FALSE, status_code |-> 0]

\* a response body: its raw text, and what response.json() gives
\* (json_kind: "invalid" raises, "array" is JSON that is no object)
Body(text, json_kind, has_message, message) ==
    [text |-> text, json_kind |-> json_kind,
     has_message |-> has_message, message |-> message]

NoBody == Body(PyNone, "invalid", FALSE, PyNone)

\* what a call on the session ends with: a Response or a raised exception
Response(code, body) ==
    [raised |-> FALSE, status_code |-> code, body |-> body, exc |-> PyNone]

Raised(exc) ==
    [raised |-> TRUE, status_code |-> 0, body |-> NoBody, exc |-> exc]

\* mutant of SessionRetries: every error status is retried
SessionRetriesAnyError(outcome, n) ==
    /\ outcome.conn \/ outcome.status_code >= 400
    /\ n <= RetryTotal

\* urllib3's Retry mounted by _create_session: GET and POST are both in
\* allowed_methods; an attempt is retried after a connection failure or a
\* status of the forcelist while retries are left (n attempts made so far)
SessionRetries(outcome, n) ==
    /\ outcome.conn \/ outcome.status_code \in StatusForcelist
    /\ n <= RetryTotal

\* the session's result once it does not retry: the retries exhausted on a
\* connection failure or on a forcelist status raise, any other status returns
SessionResult(outcome, body) ==
    IF outcome.conn THEN Raised("ConnectionError")
    ELSE IF outcome.status_code \in StatusForcelist THEN Raised("RetryError")
    ELSE Response(outcome.status_code, body)

\* response.raise_for_status()
RaiseForStatus(r) ==
    IF ~r.raised /\ r.status_code >= 400 /\ r.status_code < 600
    THEN Raised("HTTPError") ELSE r

\* APIClient.get
Get(outcome, body) == RaiseForStatus(SessionResult(outcome, body))

\* mutant of Post: post checks the status as get does
PostRaises(outcome, body) == RaiseForStatus(SessionResult(outcome, body))

\* APIClient.post
Post(outcome, body) == SessionResult(outcome, body)

\* test_connection of either client
TestConnection(outcome) == ~Get(outcome, NoBody).raised

-----------------------------------------------------------------------------
(* ForgejoClient.migrate_repository *)

\* str.replace(old, new) on a text, old one token: every occurrence is replaced
RECURSIVE Replace(_, _, _)
Replace(text, old, new) ==
    IF text = <<>> THEN <<>>
    ELSE (IF Head(text) = old THEN new ELSE <<Head(text)>>)
         \o Replace(Tail(text), old, new)

\* mutant of CloneAddr: the token is embedded in either mode
CloneAddrAlways(repo_data, cfg) ==
    Replace(repo_data.clone_url, "https://",
            <<"https://", "x-access-token:", cfg.github_token, "@">>)

\* mutant of CloneAddr: the token is embedded without the user name
CloneAddrBare(repo_data, cfg) ==
    IF ~cfg.migrate_metadata
    THEN Replace(repo_data.clone_url, "https://",
                 <<"https://", cfg.github_token, "@">>)
    ELSE repo_data.clone_url

\* the clone address of the payload
CloneAddr(repo_data, cfg) ==
    IF ~cfg.migrate_metadata
    THEN Replace(repo_data.clone_url, "https://",
                 <<"https://", "x-access-token:", cfg.github_token, "@">>)
    ELSE repo_data.clone_url

\* mutant of BasePayload: private repositories are never mirrored
BasePayloadMirrorPublic(repo_data, cfg) ==
    [clone_addr |-> CloneAddr(repo_data, cfg),
     repo_name  |-> repo_data.name,
     repo_owner |-> cfg.forgejo_owner,
     private    |-> repo_data.private,
     mirror     |-> cfg.mirror /\ ~repo_data.private]

BasePayload(repo_data, cfg) ==
    [clone_addr |-> CloneAddr(repo_data, cfg),
     repo_name  |-> repo_data.name,
     repo_owner |-> cfg.forgejo_owner,
     private    |-> repo_data.private,
     mirror     |-> cfg.mirror]

\* mutant of MetadataFields: the releases are left out
MetadataFieldsNoReleases(cfg) ==
    [service |-> "github", auth_token |-> cfg.github_token,
     wiki |-> TRUE, issues |-> TRUE, labels |-> TRUE,
     milestones |-> TRUE, pull_requests |-> TRUE]

MetadataFields(cfg) ==
    [service |-> "github", auth_token |-> cfg.github_token,
     wiki |-> TRUE, issues |-> TRUE, labels |-> TRUE,
     milestones |-> TRUE, pull_requests |-> TRUE, releases |-> TRUE]

\* dict.update / item assignment: the fields of more override those of base
Update(base, more) ==
    [k \in DOMAIN base \cup DOMAIN more |->
        IF k \in DOMAIN more THEN more[k] ELSE base[k]]

BuildPayload(repo_data, cfg) ==
    IF cfg.migrate_metadata
    THEN Update(BasePayload(repo_data, cfg), MetadataFields(cfg))
    ELSE Update(BasePayload(repo_data, cfg), [service |-> "git"])

\* mutant of SuccessCodes: a queued migration is no success
SuccessCodesCreated == {201}

\* the statuses migrate_repository takes as success
SuccessCodes == {201, 202}

\* error_msg of a response that is no success
ErrorMessage(body) ==
    IF body.json_kind = "object" /\ body.has_message
    THEN body.message ELSE body.text

\* (success, http_code, error_message) from what self.post ended with
Classify(r) ==
    IF r.raised
    THEN [success |-> FALSE, http_code |-> 0, error |-> r.exc]
    ELSE IF r.status_code \in SuccessCodes
    THEN [success |-> TRUE, http_code |-> r.status_code, error |-> PyNone]
    ELSE [success |-> FALSE, http_code |-> r.status_code,
          error |-> ErrorMessage(r.body)]

NoResult == [success |-> FALSE, http_code |-> 0, error |-> PyNone]
NoResponse == Raised(PyNone)
NoPayload == [service |-> PyNone]


-----------------------------------------------------------------------------
(* The two platforms *)

\* per_page of the source listing request
PerPage == 100

\* the records the source serves for page p of a listing
SourcePage(listing, p) ==
    SubSeq(listing, PerPage * (p - 1) + 1, Min(PerPage * p, Len(listing)))

\* how the last attempt of a GET can end: the platform answers 200 to a
\* credential it accepts and 401 to any other; it may also be down (500),
\* or unreachable
GetOutcomes(token) ==
    {ConnFailure, Status(500),
     Status(IF token \in ValidTokens THEN 200 ELSE 401)}

\* how one attempt of POST /api/v1/repos/migrate for a name can end: 401 to a
\* bad credential, 409 when the owner has the name, else created (201) or
\* queued (202); in both the owner has the name from then on
PostOutcomes(token, name) ==
    {ConnFailure, Status(500)} \cup
    (IF token \notin ValidTokens THEN {Status(401)}
     ELSE IF name \in dest THEN {Status(409)}
     ELSE {Status(201), Status(202)})

\* the body the destination sends with a status
DestBody(code) ==
    IF code = 409 THEN Body("{message: exists}", "object", TRUE, "exists")
    ELSE IF code = 401 THEN Body("Unauthorized", "invalid", FALSE, PyNone)
    ELSE Body("{}", "object", FALSE, PyNone)

-----------------------------------------------------------------------------
(* InteractiveSetup.run *)

\* mutant of InteractiveSetup: the GitHub probe's failure is only printed
InteractiveSetupOneProbe(entered, filled, fo, go) ==
    IF ~filled THEN NoConfig
    ELSE IF ~TestConnection(fo) THEN NoConfig
    ELSE entered

\* entered: what the user typed; filled: no required field was left empty;
\* fo, go: how the Forgejo and the GitHub probe ended
InteractiveSetup(entered, filled, fo, go) ==
    IF ~filled THEN NoConfig
    ELSE IF ~TestConnection(fo) THEN NoConfig
    ELSE IF ~TestConnection(go) THEN NoConfig
    ELSE entered

\* the results of the dialogues in which the probes meet the entered tokens
SetupRuns(entries) ==
    UNION {{InteractiveSetup(e, f, fo, go) :
                f \in BOOLEAN,
                fo \in GetOutcomes(e.forgejo_token),
                go \in GetOutcomes(e.github_token)} : e \in entries}

-----------------------------------------------------------------------------
(* MigrationStats, MigrationEngine *)

MigrationStats == [migrated |-> 0, skipped |-> 0, failed |-> 0]

\* history: what the loop body printed for a record
Outcome(name, kind, http_code) ==
    [name |-> name, kind |-> kind, http_code |-> http_code]

NoPrev ==
    [valid |-> FALSE, migrated |-> 0, skipped |-> 0, failed |-> 0,
     existing |-> {}, listing |-> <<>>, transferred |-> {}]

\* mutant of EngineStart: the engine of the run before is used again, with
\* its statistics; the guard of its loop is kept too
EngineStartReused ==
    /\ stats' = stats
    /\ existing_repos' = {}
    /\ github_repos' = <<>>
    /\ page' = 1
    /\ i' = 0
    /\ processed' = processed
    /\ result' = NoResult
    /\ payload' = NoPayload
    /\ response' = NoResponse
    /\ attempts' = 1
    /\ submitted' = <<>>
    /\ outcomes' = <<>>
    /\ pageLog' = <<>>
    /\ listFailed' = FALSE
    /\ summaries' = 0
    /\ runs' = runs + 1
    /\ wire' = NoWire

\* MigrationEngine(config) followed by the start of run(): fresh statistics,
\* and the destination listing request goes out
EngineStart ==
    /\ stats' = MigrationStats
    /\ existing_repos' = {}
    /\ github_repos' = <<>>
    /\ page' = 1
    /\ i' = 0
    /\ processed' = {}
    /\ result' = NoResult
    /\ payload' = NoPayload
    /\ response' = NoResponse
    /\ attempts' = 1
    /\ submitted' = <<>>
    /\ outcomes' = <<>>
    /\ pageLog' = <<>>
    /\ listFailed' = FALSE
    /\ summaries' = 0
    /\ runs' = runs + 1
    /\ wire' = NoWire

EngineVars ==
    <<existing_repos, github_repos, page, i, processed, stats, result,
      payload, response, attempts, submitted, outcomes, pageLog, listFailed,
      summaries, runs, wire>>

\* mutant of ExistingNames: the failure is not told from an answer
ExistingNamesAnyway(r, listed) == listed

\* what get_existing_repos returns, as a set: the names listed, or nothing
\* when the GET raised
ExistingNames(r, listed) == IF r.raised THEN {} ELSE listed

\* params={"limit": 1000} of the destination listing request
ListLimit == 1000

\* the names the destination lists first: it sorts numerals before letters
FirstNames(n) == {ToString(k) : k \in 1 .. n}

\* response.json() of the one listing request, as the set of its names: all
\* the owner's repositories up to the limit asked for, the first ones beyond
DestListing(d) ==
    IF Cardinality(d) <= ListLimit THEN d ELSE d \cap FirstNames(ListLimit)

\* get_existing_repos, called from run(): one attempt of the listing GET
GetExistingRepos ==
    /\ pc = "get_existing"
    /\ \E o \in GetOutcomes(config.forgejo_token) :
         /\ wire' = o
         /\ IF SessionRetries(o, attempts)
            THEN /\ attempts' = attempts + 1
                 /\ UNCHANGED <<pc, existing_repos, listFailed, page, github_repos>>
            ELSE /\ existing_repos' = ExistingNames(Get(o, NoBody), DestListing(dest))
                 /\ listFailed' = Get(o, NoBody).raised
                 /\ pc' = "get_repositories"
                 /\ github_repos' = <<>>
                 /\ page' = 1
                 /\ attempts' = 1
    /\ UNCHANGED <<args, disk, config, dest, source, i, processed, stats,
                   result, payload, response, submitted, outcomes, pageLog, summaries,
                   runs, prev, interrupt>>

\* mutant of LastPage: a page that is not full ends the loop
LastPagePartial(page_repos) == Len(page_repos) < PerPage

\* the test that ends the paging loop
LastPage(page_repos) == page_repos = <<>>

\* mutant of Extend: the page replaces what was fetched
ExtendReplaces(repos, page_repos) == page_repos

\* repos.extend(page_repos)
Extend(repos, page_repos) == repos \o page_repos

\* get_repositories: one attempt of the GET of the current page
GetRepositories ==
    /\ pc = "get_repositories"
    /\ \E o \in GetOutcomes(config.github_token) :
         /\ wire' = o
         /\ IF SessionRetries(o, attempts)
            THEN /\ attempts' = attempts + 1
                 /\ UNCHANGED <<pc, github_repos, page, pageLog, i>>
            ELSE IF Get(o, NoBody).raised
            THEN /\ pageLog' = Append(pageLog, [page |-> page, size |-> 0, failed |-> TRUE])
                 /\ pc' = "loop"
                 /\ i' = 0
                 /\ attempts' = 1
                 /\ UNCHANGED <<github_repos, page>>
            ELSE LET page_repos == SourcePage(source, page) IN
                 /\ pageLog' = Append(pageLog, [page |-> page, size |-> Len(page_repos),
                                                failed |-> FALSE])
                 /\ attempts' = 1
                 /\ IF LastPage(page_repos)
                    THEN /\ pc' = "loop"
                         /\ i' = 0
                         /\ UNCHANGED <<github_repos, page>>
                    ELSE /\ github_repos' = Extend(github_repos, page_repos)
                         /\ page' = page + 1
                         /\ UNCHANGED <<pc, i>>
    /\ UNCHANGED <<args, disk, config, dest, source, existing_repos, processed,
                   stats, result, payload, response, submitted, outcomes, listFailed,
                   summaries, runs, prev, interrupt>>

\* mutants of Skips: the duplicate guard lost, the existence test lost
SkipsExistingOnly(name, existing, done) == name \in existing

SkipsProcessedOnly(name, existing, done) == name \in done

\* the guard of the loop body: skip if already exists or processed
Skips(name, existing, done) == name \in existing \/ name \in done

\* mutant of Exhausted: the loop ends one record early
ExhaustedEarly(repos, k) == k >= Len(repos) - 1

\* for repo in github_repos: no record is left after k of them
Exhausted(repos, k) == k = Len(repos)

\* mutant of ForNext: the listing is gone through from its end
ForNextReversed(repos, k) == repos[Len(repos) - k]

\* for repo in github_repos: the record taken after k of them
ForNext(repos, k) == repos[k + 1]

\* the loop body for a record that is skipped
Skip ==
    /\ pc = "loop"
    /\ ~Exhausted(github_repos, i)
    /\ LET name == ForNext(github_repos, i).name IN
       /\ Skips(name, existing_repos, processed)
       /\ stats' = [stats EXCEPT !.skipped = @ + 1]
       /\ outcomes' = Append(outcomes, Outcome(name, "skipped", 0))
       /\ i' = i + 1
       /\ wire' = NoWire
    /\ UNCHANGED <<pc, args, disk, config, dest, source, existing_repos,
                   github_repos, page, processed, result, payload, response, attempts,
                   submitted, pageLog, listFailed, summaries, runs, prev, interrupt>>

\* mutant of ProcessedAdd: the name is not put in the guard
ProcessedAddNothing(done, name) == done

\* processed.add(name)
ProcessedAdd(done, name) == done \cup {name}

\* the loop body up to the POST of migrate_repository going out
Submit ==
    /\ pc = "loop"
    /\ ~Exhausted(github_repos, i)
    /\ LET repo == ForNext(github_repos, i) IN
       /\ ~Skips(repo.name, existing_repos, processed)
       /\ processed' = ProcessedAdd(processed, repo.name)
       /\ payload' = BuildPayload(repo, config)
       /\ submitted' = Append(submitted, repo.name)
       /\ attempts' = 1
       /\ wire' = NoWire
       /\ pc' = "post"
    /\ UNCHANGED <<args, disk, config, dest, source, existing_repos,
                   github_repos, page, i, stats, result, response, outcomes, pageLog,
                   listFailed, summaries, runs, prev, interrupt>>

\* mutant of Count: a failure without a response is not counted
CountResponses(st, res) ==
    IF res.success THEN [st EXCEPT !.migrated = @ + 1]
    ELSE IF res.http_code = 0 THEN st
    ELSE [st EXCEPT !.failed = @ + 1]

\* the counter a classified submission increments
Count(st, res) ==
    IF res.success THEN [st EXCEPT !.migrated = @ + 1]
    ELSE [st EXCEPT !.failed = @ + 1]

\* one attempt of the POST; the last one is classified and counted
PostAttempt ==
    /\ pc = "post"
    /\ LET name == ForNext(github_repos, i).name IN
       \E o \in PostOutcomes(config.forgejo_token, name) :
         /\ wire' = o
         /\ IF SessionRetries(o, attempts)
            THEN /\ attempts' = attempts + 1
                 /\ UNCHANGED <<pc, dest, response, result, stats, outcomes, i>>
            ELSE LET r == Post(o, DestBody(o.status_code))
                     res == Classify(r) IN
                 /\ response' = r
                 /\ result' = res
                 /\ dest' = IF ~o.conn /\ o.status_code \in {201, 202}
                            THEN dest \cup {name} ELSE dest
                 /\ stats' = Count(stats, res)
                 /\ outcomes' = Append(outcomes,
                       Outcome(name, IF res.success THEN "migrated" ELSE "failed",
                               res.http_code))
                 /\ i' = i + 1
                 /\ attempts' = 1
                 /\ pc' = "loop"
    /\ UNCHANGED <<args, disk, config, source, existing_repos, github_repos,
                   page, processed, payload, submitted, pageLog, listFailed,
                   summaries, runs, prev, interrupt>>

Transferred(log) == {log[k].name : k \in {j \in DOMAIN log : log[j].kind = "migrated"}}

ListingNames(repos) == [k \in DOMAIN repos |-> repos[k].name]

\* stats.print_summary() once the loop is exhausted
PrintSummary ==
    /\ pc = "loop"
    /\ Exhausted(github_repos, i)
    /\ summaries' = summaries + 1
    /\ wire' = NoWire
    /\ pc' = "summary"
    /\ UNCHANGED <<prev, interrupt, args, disk, config, dest, source, existing_repos,
                   github_repos, page, i, processed, stats, result, payload,
                   response, attempts, submitted, outcomes, pageLog, listFailed,
                   runs>>

\* run() returns: to the menu loop, or to main() which ends
EngineReturn ==
    /\ pc = "summary"
    /\ pc' = IF args = "migrate" THEN "exit" ELSE "menu"
    /\ prev' = [valid |-> TRUE, migrated |-> stats.migrated,
                skipped |-> stats.skipped, failed |-> stats.failed,
                existing |-> existing_repos,
                listing |-> ListingNames(github_repos),
                transferred |-> Transferred(outcomes)]
    /\ UNCHANGED <<args, disk, config, dest, source, EngineVars, interrupt>>


\* a KeyboardInterrupt delivered while a call of the run is in flight: it is
\* no Exception, so neither the client's handlers nor the engine catch it;
\* __main__ prints that the operation was cancelled and exits
Interrupted ==
    /\ pc \in {"get_existing", "get_repositories", "post"}
    /\ interrupt = "none"
    /\ interrupt' = "raised"
    /\ pc' = "cancelled"
    /\ UNCHANGED <<args, disk, config, dest, source, EngineVars, prev>>

\* what migrate_repository returns for a response that is no success when
\* reading its JSON body was cut short: error_msg is still response.text
ClassifyUnread(r) ==
    [success |-> FALSE, http_code |-> r.status_code, error |-> r.body.text]

\* a KeyboardInterrupt delivered while migrate_repository reads the JSON body
\* of a response that is no success: the bare except around response.json()
\* catches it, the submission is classified and the loop goes on
InterruptSwallowed ==
    /\ pc = "post"
    /\ interrupt = "none"
    /\ LET name == ForNext(github_repos, i).name IN
       \E o \in PostOutcomes(config.forgejo_token, name) :
         LET r == Post(o, DestBody(o.status_code))
             res == ClassifyUnread(r) IN
         /\ ~SessionRetries(o, attempts)
         /\ ~r.raised
         /\ r.status_code \notin SuccessCodes
         /\ wire' = o
         /\ interrupt' = "swallowed"
         /\ response' = r
         /\ result' = res
         /\ stats' = Count(stats, res)
         /\ outcomes' = Append(outcomes, Outcome(name, "failed", res.http_code))
         /\ i' = i + 1
         /\ attempts' = 1
         /\ pc' = "loop"
    /\ UNCHANGED <<args, disk, config, dest, source, existing_repos,
                   github_repos, page, processed, payload, submitted, pageLog,
                   listFailed, summaries, runs, prev>>

-----------------------------------------------------------------------------
(* main and Menu *)

\* ConfigManager.load: the file's configuration, None when there is none
Load == disk

\* after a setup that gave cfg: the file, saved on confirmation (save may fail)
Saved(cfg) == IF cfg.present THEN {disk, cfg} ELSE {disk}

\* main: --logs
MainLogs ==
    /\ pc = "main"
    /\ args = "logs"
    /\ pc' = "exit"
    /\ UNCHANGED <<args, disk, config, dest, source, EngineVars, prev, interrupt>>

\* main: --config
MainConfig ==
    /\ pc = "main"
    /\ args = "config"
    /\ \E cfg \in SetupRuns(RunConfigs) :
         /\ config' = cfg
         /\ disk' \in Saved(cfg)
    /\ pc' = "exit"
    /\ UNCHANGED <<args, dest, source, EngineVars, prev, interrupt>>

\* main: --migrate
MainMigrate ==
    /\ pc = "main"
    /\ args = "migrate"
    /\ config' = Load
    /\ IF ~Load.present
       THEN /\ pc' = "exit"
            /\ UNCHANGED EngineVars
       ELSE /\ pc' = "get_existing"
            /\ EngineStart
    /\ UNCHANGED <<args, disk, dest, source, prev, interrupt>>

\* Menu.run up to the menu loop: load the configuration or run the setup
MenuStart ==
    /\ pc = "main"
    /\ args = "menu"
    /\ IF Load.present
       THEN /\ config' = Load
            /\ pc' = "menu"
            /\ UNCHANGED disk
       ELSE \E cfg \in SetupRuns(RunConfigs) :
            /\ config' = cfg
            /\ pc' = IF cfg.present THEN "menu" ELSE "exit"
            /\ disk' \in Saved(cfg)
    /\ UNCHANGED <<args, dest, source, EngineVars, prev, interrupt>>

\* menu option 1
MenuMigrate ==
    /\ pc = "menu"
    /\ runs < MaxRuns
    /\ pc' = "get_existing"
    /\ EngineStart
    /\ UNCHANGED <<args, disk, config, dest, source, prev, interrupt>>

\* menu option 2
MenuReconfigure ==
    /\ pc = "menu"
    /\ \E cfg \in SetupRuns(RunConfigs) :
         IF cfg.present
         THEN /\ config' = cfg
              /\ disk' \in Saved(cfg)
         ELSE UNCHANGED <<config, disk>>
    /\ UNCHANGED <<pc, args, dest, source, EngineVars, prev, interrupt>>

\* menu options 3 and 4, and any other input: print only
MenuPrint ==
    /\ pc = "menu"
    /\ UNCHANGED vars

\* menu option 5
MenuExit ==
    /\ pc = "menu"
    /\ pc' = "exit"
    /\ UNCHANGED <<args, disk, config, dest, source, EngineVars, prev, interrupt>>

-----------------------------------------------------------------------------
(* The whole program *)

\* the state every specification starts the engine's locals in
Blank ==
    /\ existing_repos = {}
    /\ github_repos = <<>>
    /\ page = 1
    /\ i = 0
    /\ processed = {}
    /\ stats = MigrationStats
    /\ result = NoResult
    /\ payload = NoPayload
    /\ response = NoResponse
    /\ attempts = 1
    /\ submitted = <<>>
    /\ outcomes = <<>>
    /\ pageLog = <<>>
    /\ listFailed = FALSE
    /\ summaries = 0
    /\ runs = 0
    /\ prev = NoPrev
    /\ wire = NoWire
    /\ interrupt = "none"

Init ==
    /\ pc = "main"
    /\ args \in {"logs", "config", "migrate", "menu"}
    /\ disk \in RunConfigs \cup {NoConfig}
    /\ config = NoConfig
    /\ dest \in SUBSET ListedNames(MaxMenuRepos)
    /\ source \in Sources(MaxMenuRepos)
    /\ Blank

Next ==
    \/ MainLogs
    \/ MainConfig
    \/ MainMigrate
    \/ MenuStart
    \/ MenuMigrate
    \/ MenuReconfigure
    \/ MenuPrint
    \/ MenuExit
    \/ GetExistingRepos
    \/ GetRepositories
    \/ Skip
    \/ Submit
    \/ PostAttempt
    \/ PrintSummary
    \/ EngineReturn

Spec == Init /\ [][Next]_vars

-----------------------------------------------------------------------------
(* One engine run: main --migrate with a configuration on disk *)

InitRun ==
    /\ pc = "main"
    /\ args = "migrate"
    /\ disk \in RunConfigs
    /\ config = NoConfig
    /\ dest \in SUBSET Names
    /\ source \in Sources(MaxRepos)
    /\ Blank

NextRun ==
    \/ MainMigrate
    \/ GetExistingRepos
    \/ GetRepositories
    \/ Skip
    \/ Submit
    \/ PostAttempt
    \/ PrintSummary
    \/ EngineReturn

SpecRun == InitRun /\ [][NextRun]_vars

\* the run goes on while it can: the process is not stopped and every attempt
\* on the wire ends, with an answer or with a connection failure
SpecRunLive == SpecRun /\ WF_vars(NextRun)

-----------------------------------------------------------------------------
(* One engine run during which the user may press Ctrl-C once *)

NextInterrupt ==
    \/ NextRun
    \/ Interrupted
    \/ InterruptSwallowed

SpecInterrupt == InitRun /\ [][NextInterrupt]_vars

-----------------------------------------------------------------------------
(* get_existing_repos alone, on large destination inventories *)

\* how many repositories the destination owner has
DestTotals == {0, 1, 2, 999, 1000, 1001, 1500}

InitDest ==
    /\ pc = "get_existing"
    /\ args = "migrate"
    /\ config \in RunConfigs
    /\ disk = config
    /\ dest \in {FirstNames(n) : n \in DestTotals}
    /\ source = <<>>
    /\ Blank

NextDest == GetExistingRepos

SpecDest == InitDest /\ [][NextDest]_vars

-----------------------------------------------------------------------------
(* get_repositories alone, on long listings *)

\* a listing of n records whose names repeat with period m
LongListing(n, m) == [k \in 1 .. n |-> SourceRecord(ToString(k % m))]

\* the periods of the long listings: no name twice, and names repeated
Periods == {7, 1000}

InitPages ==
    /\ pc = "get_repositories"
    /\ args = "migrate"
    /\ config = MigrationConfig("ft_good", "ghp_good", TRUE, TRUE)
    /\ disk = config
    /\ dest = {}
    /\ source \in {LongListing(n, m) : n \in PageTotals, m \in Periods}
    /\ Blank

NextPages == GetRepositories

SpecPages == InitPages /\ [][NextPages]_vars

-----------------------------------------------------------------------------
(* get and migrate_repository alone, on drawn records, configurations and
   answers *)

\* the statuses a last attempt is drawn from
SubmitCodes ==
    {200, 201, 202, 204, 400, 401, 404, 409, 422, 429, 500, 502, 503, 504}

SubmitOutcomes == {ConnFailure} \cup {Status(c) : c \in SubmitCodes}

\* the bodies an answer is drawn from: no JSON, an object with a message,
\* with a null message, without one, and JSON that is no object
SubmitBodies ==
    {Body("raw", "invalid", FALSE, PyNone),
     Body("raw", "object", TRUE, "msg"),
     Body("raw", "object", TRUE, PyNone),
     Body("raw", "object", FALSE, PyNone),
     Body("raw", "array", FALSE, PyNone)}

SubmitRecords ==
    {RepoRecord(n, p, CloneUrl(n)) : n \in {"A", "B"}, p \in BOOLEAN}

InitSubmit ==
    /\ pc \in {"migrate_repository", "get"}
    /\ args = "migrate"
    /\ config \in Configs
    /\ disk = config
    /\ dest = {}
    /\ source \in {<<r>> : r \in SubmitRecords}
    /\ Blank

\* migrate_repository(repo_data, config) from the call to the return, the
\* session's retries folded into how its last attempt ends
MigrateRepository ==
    /\ pc = "migrate_repository"
    /\ \E o \in SubmitOutcomes, body \in SubmitBodies :
         /\ wire' = o
         /\ payload' = BuildPayload(source[1], config)
         /\ response' = Post(o, body)
         /\ result' = Classify(Post(o, body))
    /\ pc' = "returned"
    /\ UNCHANGED <<args, disk, config, dest, source, existing_repos,
                   github_repos, page, i, processed, stats, attempts,
                   submitted, outcomes, pageLog, listFailed, summaries, runs,
                   prev, interrupt>>

\* APIClient.get from the call to the return or the raise, the session's
\* retries folded into how its last attempt ends
ApiGet ==
    /\ pc = "get"
    /\ \E o \in SubmitOutcomes, body \in SubmitBodies :
         /\ wire' = o
         /\ response' = Get(o, body)
    /\ pc' = "got"
    /\ UNCHANGED <<args, disk, config, dest, source, existing_repos,
                   github_repos, page, i, processed, stats, result, payload,
                   attempts, submitted, outcomes, pageLog, listFailed,
                   summaries, runs, prev, interrupt>>

NextSubmit == MigrateRepository \/ ApiGet

SpecSubmit == InitSubmit /\ [][NextSubmit]_vars

-----------------------------------------------------------------------------
(* The claims *)

\* records of the listing whose branch of the loop body has been taken
Taken == IF pc = "post" THEN i + 1 ELSE i

\* the first position of a name in a sequence of names
FirstIndex(s, n) ==
    CHOOSE k \in DOMAIN s : s[k] = n /\ \A j \in 1 .. k - 1 : s[j] # n

\* sub lists exactly the names of s outside E, each once, in the order of
\* their first occurrence in s
IsPlan(sub, s, E) ==
    /\ Range(sub) = Range(s) \ E
    /\ \A a, b \in DOMAIN sub :
         a < b => /\ sub[a] # sub[b]
                  /\ FirstIndex(s, sub[a]) < FirstIndex(s, sub[b])

\* how many records of this run were given a kind
KindCount(kind) == Cardinality({k \in DOMAIN outcomes : outcomes[k].kind = kind})

\* C1: at every point of a run the names POSTed so far are exactly the names
\* of the records gone through so far that are not in the existing-name set,
\* each once and in the order of their first occurrence; so at the end the
\* submissions are the names of S minus E, none twice.
PlanCorrectness ==
    IsPlan(submitted, SubSeq(ListingNames(github_repos), 1, Taken),
           existing_repos)

\* C1 witness: a run over a three-record listing that repeats a name has
\* ended with two submissions
PlanWitness ==
    /\ pc = "summary"
    /\ Len(github_repos) = 3
    /\ Cardinality(Range(ListingNames(github_repos))) = 2
    /\ Len(submitted) = 2

\* the second run met the source listing of the first and a destination
\* listing that is the first run's plus what the first run transferred
SecondRun ==
    /\ pc = "summary"
    /\ prev.valid
    /\ ListingNames(github_repos) = prev.listing
    /\ existing_repos = prev.existing \cup prev.transferred

\* C2 as stated: such a second run ends with migrated = 0 and
\* skipped = the first run's migrated + skipped.
IdempotenceClaim ==
    SecondRun => /\ stats.migrated = 0
                 /\ stats.skipped = prev.migrated + prev.skipped

\* C2 amended: such a second run ends with skipped = the first run's
\* migrated + skipped and resubmits exactly what the first run failed
\* (migrated + failed = the first run's failed); migrated = 0 when the
\* first run failed nothing.
Idempotence ==
    SecondRun => /\ stats.skipped = prev.migrated + prev.skipped
                 /\ stats.migrated + stats.failed = prev.failed
                 /\ prev.failed = 0 => stats.migrated = 0

\* C2 witness: a second run after a first that migrated one record and
\* skipped one
IdempotenceWitness ==
    /\ SecondRun
    /\ prev.migrated = 1
    /\ prev.skipped = 1
    /\ stats.skipped = 2

\* C3: a submission that ends in a transport error is recorded as failed
\* with status 0 and the exception's text, the counters count every
\* classified submission, the loop goes on to the end of the listing, and
\* the run A, B, C in which only B fails so ends with migrated 2, failed 1.
FailureIsolation ==
    /\ stats.migrated = KindCount("migrated")
    /\ stats.failed = KindCount("failed")
    /\ (pc = "loop" /\ i > 0 /\ outcomes[i].kind # "skipped" /\ response.raised)
         => /\ result = [success |-> FALSE, http_code |-> 0,
                         error |-> response.exc]
            /\ outcomes[i] = Outcome(github_repos[i].name, "failed", 0)
    /\ pc \in {"loop", "post"} => ENABLED NextRun
    /\ pc = "summary" => Len(outcomes) = Len(github_repos)
    /\ (/\ pc = "summary"
        /\ ListingNames(github_repos) = <<"A", "B", "C">>
        /\ existing_repos = {}
        /\ outcomes[1].kind = "migrated"
        /\ outcomes[2] = Outcome("B", "failed", 0)
        /\ outcomes[3].kind = "migrated")
         => stats = [migrated |-> 2, skipped |-> 0, failed |-> 1]

\* C3 witness: the run A, B, C ended, B failed without a response, A was
\* created and C queued
FailureIsolationWitness ==
    /\ pc = "summary"
    /\ outcomes = <<Outcome("A", "migrated", 201), Outcome("B", "failed", 0),
                    Outcome("C", "migrated", 202)>>
    /\ stats = [migrated |-> 2, skipped |-> 0, failed |-> 1]

\* C4: a record whose name is in the existing-name set is counted as
\* skipped, no POST goes out for such a name, and the failed counter counts
\* failed submissions only.
SkipNotFailure ==
    /\ \A k \in DOMAIN outcomes :
         github_repos[k].name \in existing_repos => outcomes[k].kind = "skipped"
    /\ \A k \in DOMAIN submitted : submitted[k] \notin existing_repos
    /\ pc = "post" => github_repos[i + 1].name \notin existing_repos
    /\ stats.skipped = KindCount("skipped")
    /\ stats.failed = KindCount("failed")

\* C4 witness: a run ended in which an existing name was skipped and the
\* destination did not answer another submission
SkipWitness ==
    /\ pc = "summary"
    /\ \E k \in DOMAIN outcomes : github_repos[k].name \in existing_repos
    /\ \E k \in DOMAIN outcomes : outcomes[k] = Outcome("B", "failed", 0)
    /\ stats.skipped = 1
    /\ stats.failed = 1

\* C5: for a response, success iff its status is 201 or 202; a failure
\* carries the status and the message field of a JSON object body that has
\* one, else the raw text.
StatusClassification ==
    (pc = "returned" /\ ~response.raised) =>
        /\ result.success <=> response.status_code \in {201, 202}
        /\ result.http_code = response.status_code
        /\ result.success => result.error = PyNone
        /\ ~result.success =>
             result.error =
                IF response.body.json_kind = "object" /\ response.body.has_message
                THEN response.body.message ELSE response.body.text

\* C5 witness: a 409 whose body carries a message was classified
StatusWitness ==
    /\ pc = "returned"
    /\ ~response.raised
    /\ response.status_code = 409
    /\ result = [success |-> FALSE, http_code |-> 409, error |-> "msg"]

\* a text carries an access token
HasToken(text, cfg) ==
    "x-access-token:" \in Range(text) \/ cfg.github_token \in Range(text)

\* C6: a payload built with migrate_metadata false has no auth_token field;
\* the clone_addr of one built with migrate_metadata true carries no token.
ModeExclusivity ==
    pc = "returned" =>
        /\ ~config.migrate_metadata => "auth_token" \notin DOMAIN payload
        /\ config.migrate_metadata => ~HasToken(payload.clone_addr, config)

\* C6 witness: a code-only payload was built, the token in its address
ModeWitness ==
    /\ pc = "returned"
    /\ ~config.migrate_metadata
    /\ HasToken(payload.clone_addr, config)
    /\ payload.service = "git"

\* the listing of 250 records was fetched with no failure
Fetched250 ==
    /\ pc = "loop"
    /\ Len(source) = 250
    /\ \A k \in DOMAIN pageLog : ~pageLog[k].failed

PageSizes == [k \in DOMAIN pageLog |-> pageLog[k].size]

\* C7 as stated: 250 records are fetched in exactly 3 page requests.
PaginationClaim == Fetched250 => PageSizes = <<100, 100, 50>>

\* C7 amended: 250 records are fetched in exactly 4 page requests, of 100,
\* 100, 50 and 0 records: only the empty fourth page ends the sequence, and
\* no request follows it.
PaginationTermination ==
    Fetched250 => /\ PageSizes = <<100, 100, 50, 0>>
                  /\ github_repos = source
                  /\ ~ENABLED GetRepositories

\* C7 witness: the fetch of 250 records has ended
PaginationWitness == Fetched250 /\ Len(pageLog) = 4

RECURSIVE Sum(_)
Sum(s) == IF s = <<>> THEN 0 ELSE Head(s) + Sum(Tail(s))

\* C8: pages 1, 2, 3, ... are requested in order, each once; every page
\* before the last requested one was fetched and not empty; the last one of
\* a finished listing is empty or failed and no request follows it; what
\* is returned is the source's records up to that page, in order.
ListingProtocol ==
    /\ \A k \in DOMAIN pageLog : pageLog[k].page = k
    /\ \A k \in 1 .. Len(pageLog) - 1 : ~pageLog[k].failed /\ pageLog[k].size > 0
    /\ pc = "get_repositories" =>
         /\ page = Len(pageLog) + 1
         /\ \A k \in DOMAIN pageLog : ~pageLog[k].failed /\ pageLog[k].size > 0
    /\ pc = "loop" =>
         /\ pageLog # <<>>
         /\ pageLog[Len(pageLog)].failed \/ pageLog[Len(pageLog)].size = 0
         /\ ~ENABLED GetRepositories
    /\ github_repos = SubSeq(source, 1, Sum(PageSizes))

\* C8 witness: the third page of 250 records failed and 200 records, some
\* of the same name, are returned
ListingWitness ==
    /\ pc = "loop"
    /\ Len(source) = 250
    /\ Len(pageLog) = 3
    /\ pageLog[3].failed
    /\ Len(github_repos) = 200
    /\ github_repos[1].name = github_repos[8].name

\* C9: when the destination listing fetch failed the existing-name set is
\* empty, the run goes on, and at its end every distinct name of the source
\* listing has been submitted: only repetitions were skipped.
FailOpen ==
    listFailed =>
        /\ existing_repos = {}
        /\ pc \in {"get_repositories", "loop", "post", "summary", "exit"}
        /\ pc # "exit" => ENABLED NextRun
        /\ pc \in {"summary", "exit"} =>
             /\ Range(submitted) = Range(ListingNames(github_repos))
             /\ \A k \in DOMAIN outcomes :
                  outcomes[k].kind = "skipped" =>
                      \E j \in 1 .. k - 1 : outcomes[j].name = outcomes[k].name

\* C9 witness: after a failed listing fetch a name the destination has was
\* submitted and rejected by the destination
FailOpenWitness ==
    /\ listFailed
    /\ pc = "summary"
    /\ \E k \in DOMAIN outcomes :
         outcomes[k].name \in dest /\ outcomes[k].http_code = 409

\* both credentials of a configuration authenticate
Authenticates(cfg) ==
    cfg.forgejo_token \in ValidTokens /\ cfg.github_token \in ValidTokens

\* a run got as far as a POST or its summary
RunWentOn == submitted # <<>> \/ summaries > 0

\* C10 as stated: no POST goes out and no summary is produced unless there
\* is a configuration and both platforms authenticate its credentials.
PreflightClaim == RunWentOn => config.present /\ Authenticates(config)

\* C10 amended: no engine is constructed without a configuration (--migrate
\* exits, the menu ends when its setup fails), and a setup whose probe of
\* either platform fails gives no configuration; but a configuration loaded
\* from disk is not probed, so only a configuration from disk can have a
\* credential that does not authenticate, and its run is not aborted.
Preflight ==
    /\ (runs > 0 \/ RunWentOn) => config.present
    /\ (config.present /\ ~Authenticates(config)) => disk = config
    /\ (pc = "exit" /\ ~config.present) => runs = 0 /\ ~RunWentOn

\* C10 witness: the menu ended because the setup failed, before any run
PreflightWitness ==
    /\ pc = "exit"
    /\ args = "menu"
    /\ ~config.present
    /\ runs = 0
    /\ ~RunWentOn

\* the last attempt of the call ended with a status
Answered == ~wire.conn /\ wire.status_code > 0

\* C11 as stated: post returns the response for every final status, which
\* reaches the classifier with that status; get raises for every 4xx/5xx
\* final status.
AsymmetryClaim ==
    /\ (pc = "returned" /\ Answered) =>
          /\ ~response.raised
          /\ response.status_code = wire.status_code
          /\ result.http_code = wire.status_code
    /\ (pc = "got" /\ Answered /\ wire.status_code >= 400) => response.raised

\* C11 amended: post returns the response for every final status outside
\* 429, 500, 502, 503, 504, which reaches the classifier with that status;
\* a final status of those five is raised by the session and classified as
\* a failure with status 0; get raises for every 4xx/5xx final status and
\* returns any other.
Asymmetry ==
    /\ (pc = "returned" /\ Answered) =>
          IF wire.status_code \in {429, 500, 502, 503, 504}
          THEN /\ response.raised
               /\ result = [success |-> FALSE, http_code |-> 0,
                             error |-> "RetryError"]
          ELSE /\ ~response.raised
               /\ response.status_code = wire.status_code
               /\ result.http_code = wire.status_code
               /\ result.success <=> wire.status_code \in {201, 202}
    /\ (pc = "got" /\ Answered) =>
          (response.raised <=> wire.status_code >= 400)
    /\ (pc = "got" /\ Answered /\ ~response.raised) =>
          response.status_code = wire.status_code

\* C11 witness: a POST answered 422 was returned and classified with 422
AsymmetryWitness ==
    /\ pc = "returned"
    /\ wire = Status(422)
    /\ ~response.raised
    /\ result.success = FALSE
    /\ result.http_code = 422

\* the answers after which the session tries again
Retryable(o) == o.conn \/ o.status_code \in {429, 500, 502, 503, 504}

\* C12: a call makes at most 4 attempts; a further attempt follows only a
\* connection failure or a status of 429, 500, 502, 503, 504; any other
\* answer to a POST ends the call at that attempt, is recorded and leaves
\* the run in its loop; every call ends, so that the run reaches its summary.
RetryDiscipline ==
    /\ [](attempts \in 1 .. 4)
    /\ [][attempts' = attempts + 1 => Retryable(wire') /\ pc' = pc]_vars
    /\ [][(pc = "post" /\ ~Retryable(wire')) =>
            /\ pc' = "loop"
            /\ attempts' = 1
            /\ Len(outcomes') = Len(outcomes) + 1
            /\ outcomes'[Len(outcomes')].http_code = wire'.status_code]_vars
    /\ <>(summaries = 1)

\* C12 witness: after a submission rejected with 401 was recorded, the
\* next one is at its fourth attempt, the third having been answered 500
RetryWitness ==
    /\ pc = "post"
    /\ attempts = 4
    /\ wire = Status(500)
    /\ outcomes # <<>>
    /\ outcomes[1].kind = "failed"
    /\ outcomes[1].http_code = 401

\* C13: during a run none of the three counters ever decreases; the summary
\* is rendered once, when every record of the listing has its outcome, and
\* after it no counter changes and nothing is submitted; a run that ended
\* has rendered it.
SummaryDiscipline ==
    /\ [][/\ stats'.migrated >= stats.migrated
          /\ stats'.skipped >= stats.skipped
          /\ stats'.failed >= stats.failed]_vars
    /\ [](summaries \in {0, 1})
    /\ [](summaries = 1 => /\ pc \in {"summary", "exit"}
                           /\ i = Len(github_repos)
                           /\ Len(outcomes) = Len(github_repos))
    /\ [][summaries = 1 => UNCHANGED <<stats, submitted, outcomes, summaries>>]_vars
    /\ [](pc = "exit" => summaries = 1)

\* C13 witness: the summary of a run that migrated two records and skipped
\* one has been rendered
SummaryWitness ==
    /\ pc = "summary"
    /\ summaries = 1
    /\ stats = [migrated |-> 2, skipped |-> 1, failed |-> 0]

\* the outcomes of this run that are outcomes of submissions
Classified == KindCount("migrated") + KindCount("failed")

\* C16: while a listing is fetched nothing has been submitted; a submission
\* is issued from the loop, for the record next in the listing, when every
\* earlier record has its outcome; while it is in flight the loop does not
\* advance; the records are gone through one by one in listing order.
SequentialOrder ==
    /\ [](pc \in {"get_existing", "get_repositories"} =>
            submitted = <<>> /\ outcomes = <<>>)
    /\ [][(pageLog' # pageLog \/ existing_repos' # existing_repos) =>
            submitted' = <<>>]_vars
    /\ [][submitted' # submitted =>
            /\ pc = "loop" /\ pc' = "post"
            /\ Len(outcomes) = i
            /\ Classified = Len(submitted)
            /\ submitted' = Append(submitted, github_repos[i + 1].name)
            /\ i' = i]_vars
    /\ [](pc = "post" => /\ Len(outcomes) = i
                         /\ Classified + 1 = Len(submitted)
                         /\ submitted[Len(submitted)] = github_repos[i + 1].name)
    /\ [][i' # i => /\ i' = i + 1
                    /\ outcomes' = Append(outcomes, outcomes'[i'])
                    /\ outcomes'[i'].name = github_repos[i'].name]_vars

\* C16 witness: in the listing A, B, C the submission of C is in flight
\* after A's was recorded and B was skipped
SequentialWitness ==
    /\ pc = "post"
    /\ i = 2
    /\ submitted = <<"A", "C">>
    /\ outcomes[1].kind # "skipped"
    /\ outcomes[2] = Outcome("B", "skipped", 0)

\* the steps of an engine's run
InRun == pc \in {"get_existing", "get_repositories", "loop", "post", "summary"}

\* C17: the configuration is not replaced while an engine runs, every
\* payload is built in that configuration's mode, and two payloads that
\* follow each other in a run have the same service and the same mirror.
ModeUniformity ==
    /\ [][InRun => config' = config]_vars
    /\ [](pc = "post" =>
            /\ payload.service = IF config.migrate_metadata THEN "github" ELSE "git"
            /\ payload.mirror = config.mirror)
    /\ [][(runs' = runs /\ payload # NoPayload /\ payload' # payload) =>
            /\ payload'.service = payload.service
            /\ payload'.mirror = payload.mirror]_vars

\* C17 witness: the second run of a menu session, with a configuration
\* that is not the one on disk, has built its second payload
ModeUniformityWitness ==
    /\ args = "menu"
    /\ runs = 2
    /\ prev.valid
    /\ config # disk
    /\ pc = "post"
    /\ Len(submitted) = 2
    /\ payload.repo_name = "B"

\* C18: with migrate_metadata the clone address is the record's clone URL;
\* without it, it is that URL with x-access-token:<token>@ between the
\* https:// it starts with and the rest.
CloneAddress ==
    pc = "returned" =>
        LET url == source[1].clone_url IN
        /\ Head(url) = "https://"
        /\ payload.clone_addr =
             IF config.migrate_metadata THEN url
             ELSE <<"https://", "x-access-token:", config.github_token, "@">>
                  \o Tail(url)

\* C18 witness: the address of a code-only payload for the record A
CloneAddressWitness ==
    /\ pc = "returned"
    /\ ~config.migrate_metadata
    /\ payload.clone_addr =
         <<"https://", "x-access-token:", "ghp_good", "@",
           "github.com/", "gowner/", "A", ".git">>

\* C19: a payload has the record's name and private flag, the
\* configuration's owner and mirror flag; with migrate_metadata it has
\* besides exactly service = github, the token and the six flags, all true;
\* without it exactly service = git.
PayloadCompleteness ==
    pc = "returned" =>
        /\ payload.repo_name = source[1].name
        /\ payload.repo_owner = config.forgejo_owner
        /\ payload.private = source[1].private
        /\ payload.mirror = config.mirror
        /\ IF config.migrate_metadata
           THEN /\ DOMAIN payload =
                     {"clone_addr", "repo_name", "repo_owner", "private",
                      "mirror", "service", "auth_token", "wiki", "issues",
                      "labels", "milestones", "pull_requests", "releases"}
                /\ payload.service = "github"
                /\ payload.auth_token = config.github_token
                /\ \A f \in {"wiki", "issues", "labels", "milestones",
                              "pull_requests", "releases"} : payload[f] = TRUE
           ELSE /\ DOMAIN payload =
                     {"clone_addr", "repo_name", "repo_owner", "private",
                      "mirror", "service"}
                /\ payload.service = "git"

\* C19 witness: a metadata payload for a private record, not mirrored
PayloadWitness ==
    /\ pc = "returned"
    /\ config.migrate_metadata
    /\ payload.private
    /\ ~payload.mirror
    /\ payload.releases

\* C20: the three counters add up to the records gone through, migrated +
\* failed to the submissions that have returned (the one in flight is
\* counted when it returns), and at the summary the three add up to the
\* length of the listing fetched.
CounterConservation ==
    /\ stats.migrated + stats.skipped + stats.failed = i
    /\ i = Len(outcomes)
    /\ stats.migrated + stats.failed =
         Len(submitted) - (IF pc = "post" THEN 1 ELSE 0)
    /\ summaries > 0 =>
         stats.migrated + stats.skipped + stats.failed = Len(github_repos)

\* C20 witness: the third record's submission is in flight, the first was
\* skipped and the second failed
ConservationWitness ==
    /\ pc = "post"
    /\ i = 2
    /\ stats = [migrated |-> 0, skipped |-> 1, failed |-> 1]
    /\ Len(submitted) = 2

\* C14 as stated: once a KeyboardInterrupt was delivered during a fetch or
\* a submission the run is aborted: no outcome was recorded for the call in
\* flight, the loop did not go on, no summary is rendered, and the counters
\* count the records whose outcome was recorded before.
InterruptAborts ==
    interrupt # "none" =>
        /\ pc = "cancelled"
        /\ summaries = 0
        /\ Len(outcomes) = i
        /\ stats.migrated = KindCount("migrated")
        /\ stats.skipped = KindCount("skipped")
        /\ stats.failed = KindCount("failed")
        /\ Len(submitted) \in {Classified, Classified + 1}

\* C15 as stated: a destination listing that succeeded gave the name of
\* every repository the owner has; the set is built before any submission
\* and stays as built.
ExistingSetComplete ==
    /\ (pc = "get_repositories" /\ ~listFailed) => existing_repos = dest
    /\ pc = "get_existing" => submitted = <<>>

\* the record at position k of this run was skipped
SkippedAt(k) == outcomes[k].kind = "skipped"

\* a record before position k had the name of the one at k and was submitted
SubmittedBefore(k) ==
    \E j \in 1 .. k - 1 :
        outcomes[j].name = outcomes[k].name /\ ~SkippedAt(j)

\* C21: a name is in the guard from the moment its submission goes out,
\* whatever becomes of it; a later record with the name of a submission
\* that failed is skipped and not submitted again; a record is skipped
\* exactly when its name is in the existing-name set or was submitted
\* earlier in the run.
DuplicateGuard ==
    /\ processed = Range(submitted)
    /\ pc = "post" => github_repos[i + 1].name \in processed
    /\ \A a, b \in DOMAIN submitted : a # b => submitted[a] # submitted[b]
    /\ \A k \in DOMAIN outcomes :
         /\ outcomes[k].name = github_repos[k].name
         /\ SkippedAt(k) <=>
              (outcomes[k].name \in existing_repos \/ SubmittedBefore(k))
         /\ (\E j \in 1 .. k - 1 : /\ outcomes[j].name = outcomes[k].name
                                    /\ outcomes[j].kind = "failed")
              => SkippedAt(k)

\* C21 witness: in the listing A, B, A the submission of A failed, A is not
\* in the existing-name set and its second occurrence was skipped
DuplicateGuardWitness ==
    /\ pc = "summary"
    /\ existing_repos = {}
    /\ Len(outcomes) = 3
    /\ outcomes[1].name = "A"
    /\ outcomes[1].kind = "failed"
    /\ outcomes[3] = Outcome("A", "skipped", 0)
    /\ submitted = <<"A", "B">>

\* C22: a run starts with its counters at 0 and its guard empty; at every
\* point the counters count the records of this run only; a record is
\* skipped only if its name is in the destination listing of this run or
\* was submitted earlier in this run, so a name an earlier run processed
\* and did not transfer is submitted again.
FreshState ==
    /\ pc = "get_existing" => stats = MigrationStats /\ processed = {}
    /\ stats.migrated = KindCount("migrated")
    /\ stats.skipped = KindCount("skipped")
    /\ stats.failed = KindCount("failed")
    /\ processed \subseteq Range(ListingNames(github_repos))
    /\ pc = "summary" =>
         stats.migrated + stats.skipped + stats.failed = Len(github_repos)
    /\ \A k \in DOMAIN outcomes :
         SkippedAt(k) =>
            (outcomes[k].name \in existing_repos \/ SubmittedBefore(k))
    /\ (pc = "summary" /\ prev.valid) =>
         \A n \in Range(prev.listing) \cap Range(ListingNames(github_repos)) :
            n \notin existing_repos => n \in Range(submitted)

\* C22 witness: the second run of a menu session ended; the first had
\* migrated one record and failed the other, the second skipped the one
\* and migrated the other
FreshStateWitness ==
    /\ pc = "summary"
    /\ runs = 2
    /\ prev.valid
    /\ prev.migrated = 1
    /\ prev.failed = 1
    /\ ListingNames(github_repos) = prev.listing
    /\ stats = [migrated |-> 1, skipped |-> 1, failed |-> 0]

=============================================================================
